---- MODULE Spec2Model ----
(***************************************************************************)
(* Model of scripts/populate_form_json.py: the batch job that fills the    *)
(* NULL form_json column of the form table.                                *)
(*                                                                         *)
(* A run is one invocation of main().  Runs == {1, 2}: under Spec the      *)
(* second invocation starts after the first has exited (the script run     *)
(* twice in succession); under SpecConc both invocations run against the   *)
(* same storage at the same time, each with its own database session;      *)
(* under SpecTitle the script runs once over every kind of section link.   *)
(***************************************************************************)
EXTENDS Integers, Sequences, FiniteSets

\* Number of rows of the form table.
MaxForms == 2

FormIds == 1..MaxForms
Runs == {1, 2}

\* A nullable value is NULL (SQL NULL / Python None) or Some(v).
NULL == <<>>
Some(v) == <<v>>
Val(x) == x[1]

\* dict.get(key, default) on a mapping modelled as a function on its keys.
Get(m, key, default) == IF key \in DOMAIN m THEN m[key] ELSE default

\* dict.get(key): the value, or None.
GetOrNone(m, key) == IF key \in DOMAIN m THEN Some(m[key]) ELSE NULL

\* The empty mapping {}.
EmptyDict == [k \in {} |-> ""]

\* The fund, round and section tables (never written by the script).
FundTable ==
    { [fund_id |-> "f_x",    title_json |-> Some([en |-> "Grant X"])],
      [fund_id |-> "f_cy",   title_json |-> Some([cy |-> "Grant X (cy)"])],
      [fund_id |-> "f_empty", title_json |-> Some(EmptyDict)],
      [fund_id |-> "f_null", title_json |-> NULL] }
RoundTable ==
    { [round_id |-> "r_x",     fund_id |-> "f_x"],
      [round_id |-> "r_cy",    fund_id |-> "f_cy"],
      [round_id |-> "r_empty", fund_id |-> "f_empty"],
      [round_id |-> "r_null",  fund_id |-> "f_null"],
      [round_id |-> "r_nofund", fund_id |-> "f_gone"] }
SectionTable ==
    { [section_id |-> "s_x",       round_id |-> "r_x"],
      [section_id |-> "s_cy",      round_id |-> "r_cy"],
      [section_id |-> "s_empty",   round_id |-> "r_empty"],
      [section_id |-> "s_null",    round_id |-> "r_null"],
      [section_id |-> "s_nofund",  round_id |-> "r_nofund"],
      [section_id |-> "s_noround", round_id |-> "r_gone"] }

\* Values a form row's section_id column refers to; "s_orphan" is in no table.
SectionRefs == {"s_x", "s_cy", "s_empty", "s_null", "s_nofund", "s_noround", "s_orphan"}

\* A form_json value written before the script ever ran.
ExistingJson == <<"existing_form_json">>

VARIABLES
    persisted,        \* the committed form table: form_id -> row
    builder_raises,   \* the forms on which build_form_json raises
    pc,               \* per run, the position in main / populate_form_json
    forms_to_update,  \* per run, the candidates in the order storage returned them
    idx,              \* per run, the position of the for loop in forms_to_update
    session,          \* per run, db.session: loaded objects and the dirty ones
    updated_count,    \* per run
    error_count,      \* per run
    out,              \* per run, the lines printed and logged so far
    calls,            \* per run, the build_form_json calls made: <<form_id, fund_title>>
    pre               \* per run, the committed form table when the run started

vars == << persisted, builder_raises, pc, forms_to_update, idx, session,
           updated_count, error_count, out, calls, pre >>

\* The rows of the form table over the given column values.
FormRows(names, sections, jsons) ==
    { t \in [FormIds -> [form_id : FormIds, name_in_apply_json : names,
                         section_id : sections, form_json : jsons]] :
        \A f \in FormIds : t[f].form_id = f }

EmptySession == [objs |-> <<>>, dirty |-> {}]

InitRuns ==
    /\ pc = [r \in Runs |-> "idle"]
    /\ forms_to_update = [r \in Runs |-> <<>>]
    /\ idx = [r \in Runs |-> 1]
    /\ session = [r \in Runs |-> EmptySession]
    /\ updated_count = [r \in Runs |-> 0]
    /\ error_count = [r \in Runs |-> 0]
    /\ out = [r \in Runs |-> <<>>]
    /\ calls = [r \in Runs |-> <<>>]
    /\ pre = [r \in Runs |-> persisted]

\* The script run twice in succession; names without an "en" entry or absent.
Init ==
    /\ persisted \in FormRows({NULL, Some([cy |-> "Ffurflen A"])}, {NULL, Some("s_x")},
                              {NULL, ExistingJson})
    /\ builder_raises \in SUBSET FormIds
    /\ InitRuns

\* Every kind of section reference, over forms that all have a name.
InitTitle ==
    /\ persisted \in FormRows({Some([en |-> "Form A"])},
                              {NULL} \cup {Some(s) : s \in SectionRefs},
                              {NULL, ExistingJson})
    /\ builder_raises = {}
    /\ InitRuns

\* Two concurrent invocations.
InitConc ==
    /\ persisted \in FormRows({NULL, Some([en |-> "Form A"])}, {NULL, Some("s_x")},
                              {NULL, ExistingJson})
    /\ builder_raises = {}
    /\ InitRuns

(***************************************************************************)
(* Pure parts of populate_form_json                                        *)
(***************************************************************************)

\* Faulty variant of SelectCandidates: the NULL filter is missing.
SelectAllForms(db) == DOMAIN db

\* Faulty variant of SelectCandidates: rows another session has loaded are
\* skipped, as under a row lock the script does not take.
SelectUnlocked(db) ==
    { f \in DOMAIN db : db[f].form_json = NULL /\ \A r \in Runs : f \notin DOMAIN session[r].objs }

\* line 26: the rows selected by Form.form_json.is_(None)
SelectCandidates(db) == { f \in DOMAIN db : db[f].form_json = NULL }

\* The orders in which storage may return a set of rows (no ORDER BY).
Orders(S) ==
    { s \in [1..Cardinality(S) -> S] : \A i, j \in 1..Cardinality(S) : i # j => s[i] # s[j] }

\* lines 46-55: the rows of the fund/round/section join for one section_id
JoinRows(section_id) ==
    { << f.title_json >> : f \in { f \in FundTable :
        \E r \in RoundTable : \E s \in SectionTable :
            /\ f.fund_id = r.fund_id
            /\ r.round_id = s.round_id
            /\ s.section_id = section_id } }

\* .fetchone(): the first row, or None
Fetchone(rows) == IF rows = {} THEN NULL ELSE Some(CHOOSE row \in rows : TRUE)

\* Python truth value of a nullable mapping: None and {} are false.
TruthyMapping(x) == x # NULL /\ DOMAIN Val(x) # {}

\* Faulty variant of FundTitle: the wrong language key.
FundTitleWelsh(result) ==
    IF result # NULL
    THEN LET title_json == Val(result)[1]
         IN IF TruthyMapping(title_json) THEN GetOrNone(Val(title_json), "cy") ELSE NULL
    ELSE NULL

\* lines 57-58: fund_title from the fetched row (stays None without a row)
FundTitle(result) ==
    IF result # NULL
    THEN LET title_json == Val(result)[1]
         IN IF TruthyMapping(title_json) THEN GetOrNone(Val(title_json), "en") ELSE NULL
    ELSE NULL

\* app.export_config.generate_form.build_form_json: an opaque deterministic
\* function of the form and the title that returns a JSON structure.
build_form_json(form, fund_title) == <<"form_json", form.form_id, fund_title>>

\* Faulty variant of AssignedJson: the builder's result is dropped.
AssignedNone(form, fund_title) == NULL

\* lines 61-64: the value form.form_json is set to
AssignedJson(form, fund_title) == build_form_json(form, fund_title)

\* lines 38-64, the try body for one form as loaded in the session; db_ok says
\* whether the join query (when one is made) executes without a database error.
\* ok: the body ran to line 67; lines: what it printed; called: build_form_json
\* was called, with fund_title; form_json: the value assigned at line 64;
\* error: str(e) of the exception raised.
TryBody(form, db_ok) ==
    LET failed(lines, called, title, e) ==
            [ok |-> FALSE, lines |-> lines, called |-> called,
             fund_title |-> title, form_json |-> NULL, error |-> e]
    IN  IF form.name_in_apply_json = NULL
        THEN failed(<<>>, FALSE, NULL, "name_in_apply_json is None")
        ELSE
        LET form_name == Get(Val(form.name_in_apply_json), "en", "Unnamed")
            printed == << <<"Processing form", form.form_id, form_name>> >>
        IN  IF form.section_id # NULL /\ ~db_ok
            THEN failed(printed, FALSE, NULL, "execute raised")
            ELSE
            LET fund_title == IF form.section_id # NULL
                              THEN FundTitle(Fetchone(JoinRows(Val(form.section_id))))
                              ELSE NULL
            IN  IF form.form_id \in builder_raises
                THEN failed(printed, TRUE, fund_title, "build_form_json raised")
                ELSE [ok |-> TRUE,
                      lines |-> Append(printed, <<"Generated JSON for form", form.form_id>>),
                      called |-> TRUE,
                      fund_title |-> fund_title,
                      form_json |-> AssignedJson(form, fund_title),
                      error |-> ""]

\* Whether the try body of this form reaches the join query.
RunsJoin(form) == form.name_in_apply_json # NULL /\ form.section_id # NULL

\* Faulty variant of Flush: nothing is written.
FlushNone(db, sess) == db

\* line 78, db.session.commit() succeeding: the dirty objects' changed
\* attribute is written to their rows.
Flush(db, sess) ==
    [f \in DOMAIN db |->
        IF f \in sess.dirty THEN [db[f] EXCEPT !.form_json = sess.objs[f].form_json]
        ELSE db[f]]

\* Faulty variant of RolledBack: the pending changes reach storage.
NotRolledBack(db, sess) == Flush(db, sess)

\* lines 78, 85: a failed commit followed by db.session.rollback()
RolledBack(db, sess) == db

\* lines 78, 79-82 / 85: the session after commit() or rollback(): every
\* object expired, nothing pending.
Expired(sess) == EmptySession

\* Exit states of the process.
NormalExit == "exit0"        \* main returns
\* Faulty variant of CommitFailedExit: sys.exit(1) is missing.
ExitZeroAfterFailedCommit == "exit0"
CommitFailedExit == "exit1"  \* line 88, sys.exit(1)
ScriptFailedExit == "exit1"  \* line 101, sys.exit(1)
Exited == {"exit0", "exit1"}

(***************************************************************************)
(* Actions                                                                 *)
(***************************************************************************)

\* lines 91-97, 23: main enters populate_form_json in a fresh process
Begin(r) ==
    /\ pc[r] = "idle"
    /\ pc' = [pc EXCEPT ![r] = "query"]
    /\ out' = [out EXCEPT ![r] = << <<"Starting form JSON population script">> >>]
    /\ pre' = [pre EXCEPT ![r] = persisted]
    /\ UNCHANGED << persisted, builder_raises, forms_to_update, idx, session,
                    updated_count, error_count, calls >>

\* The script invoked again after the previous invocation has exited.
StartSeq(r) ==
    /\ r = 1 \/ (r - 1 \in Runs /\ pc[r - 1] \in Exited)
    /\ Begin(r)

\* The script invoked while another invocation may be running.
StartConc(r) ==
    /\ r \in Runs
    /\ Begin(r)

\* line 26 raising; lines 98-101
QueryFail(r) ==
    /\ pc[r] = "query"
    /\ pc' = [pc EXCEPT ![r] = ScriptFailedExit]
    /\ out' = [out EXCEPT ![r] = @ \o << <<"Script failed with error">>,
                                        <<"LOG Form JSON population script failed.">> >>]
    /\ UNCHANGED << persisted, builder_raises, forms_to_update, idx, session,
                    updated_count, error_count, calls, pre >>

\* Faulty variant of QueryEmpty: the early return is missing.
QueryEmptyNoReturn(r) ==
    /\ pc[r] = "query"
    /\ SelectCandidates(persisted) = {}
    /\ pc' = [pc EXCEPT ![r] = "commit"]
    /\ out' = [out EXCEPT ![r] = Append(@, <<"No forms found with NULL form_json">>)]
    /\ UNCHANGED << persisted, builder_raises, forms_to_update, idx, session,
                    updated_count, error_count, calls, pre >>

\* lines 26-30: no form has a NULL form_json
QueryEmpty(r) ==
    /\ pc[r] = "query"
    /\ SelectCandidates(persisted) = {}
    /\ pc' = [pc EXCEPT ![r] = NormalExit]
    /\ out' = [out EXCEPT ![r] = Append(@, <<"No forms found with NULL form_json">>)]
    /\ UNCHANGED << persisted, builder_raises, forms_to_update, idx, session,
                    updated_count, error_count, calls, pre >>

\* lines 26-35: the candidates are loaded into the session
QueryFound(r) ==
    /\ pc[r] = "query"
    /\ SelectCandidates(persisted) # {}
    /\ \E order \in Orders(SelectCandidates(persisted)) :
          /\ forms_to_update' = [forms_to_update EXCEPT ![r] = order]
          /\ out' = [out EXCEPT ![r] = Append(@, <<"Found forms with NULL form_json", Len(order)>>)]
    /\ session' = [session EXCEPT ![r] =
                      [objs |-> [f \in SelectCandidates(persisted) |-> persisted[f]],
                       dirty |-> {}]]
    /\ updated_count' = [updated_count EXCEPT ![r] = 0]
    /\ error_count' = [error_count EXCEPT ![r] = 0]
    /\ idx' = [idx EXCEPT ![r] = 1]
    /\ pc' = [pc EXCEPT ![r] = "loop"]
    /\ UNCHANGED << persisted, builder_raises, calls, pre >>

\* The form the for loop is at.
CurrentForm(r) == session[r].objs[forms_to_update[r][idx[r]]]

\* line 37: the loop moves to the next form, or ends
Advance(r) ==
    /\ idx' = [idx EXCEPT ![r] = @ + 1]
    /\ pc' = [pc EXCEPT ![r] = IF idx[r] + 1 > Len(forms_to_update[r]) THEN "commit" ELSE "loop"]

\* The build_form_json calls after one try body.
CallsAfter(r, form, t) ==
    IF t.called THEN [calls EXCEPT ![r] = Append(@, <<form.form_id, t.fund_title>>)] ELSE calls

\* lines 37-67: one iteration whose try body completes
ProcessOk(r) ==
    /\ pc[r] = "loop"
    /\ LET form == CurrentForm(r)
       IN \E db_ok \in (IF RunsJoin(form) THEN BOOLEAN ELSE {TRUE}) :
            LET t == TryBody(form, db_ok)
            IN  /\ t.ok
                /\ session' = [session EXCEPT
                                 ![r].objs[form.form_id].form_json = t.form_json,
                                 ![r].dirty = @ \cup {form.form_id}]
                /\ updated_count' = [updated_count EXCEPT ![r] = @ + 1]
                /\ out' = [out EXCEPT ![r] = @ \o t.lines]
                /\ calls' = CallsAfter(r, form, t)
    /\ Advance(r)
    /\ UNCHANGED << persisted, builder_raises, forms_to_update, error_count, pre >>

\* Faulty variant of ProcessErr: the exception leaves the loop.
ProcessErrAborts(r) ==
    /\ pc[r] = "loop"
    /\ LET form == CurrentForm(r)
       IN \E db_ok \in (IF RunsJoin(form) THEN BOOLEAN ELSE {TRUE}) :
            LET t == TryBody(form, db_ok)
            IN  /\ ~t.ok
                /\ out' = [out EXCEPT ![r] = @ \o t.lines \o
                              << <<"Script failed with error">>,
                                 <<"LOG Form JSON population script failed.">> >>]
                /\ calls' = CallsAfter(r, form, t)
    /\ pc' = [pc EXCEPT ![r] = ScriptFailedExit]
    /\ UNCHANGED << persisted, builder_raises, forms_to_update, idx, session,
                    updated_count, error_count, pre >>

\* lines 37-74: one iteration whose try body raises
ProcessErr(r) ==
    /\ pc[r] = "loop"
    /\ LET form == CurrentForm(r)
       IN \E db_ok \in (IF RunsJoin(form) THEN BOOLEAN ELSE {TRUE}) :
            LET t == TryBody(form, db_ok)
            IN  /\ ~t.ok
                /\ error_count' = [error_count EXCEPT ![r] = @ + 1]
                /\ out' = [out EXCEPT ![r] = @ \o t.lines \o
                              << <<"Error processing form", form.form_id, t.error>>,
                                 <<"LOG Failed to generate JSON for form.", form.form_id>> >>]
                /\ calls' = CallsAfter(r, form, t)
    /\ Advance(r)
    /\ UNCHANGED << persisted, builder_raises, forms_to_update, session, updated_count, pre >>

\* lines 76-82: the commit succeeds
CommitOk(r) ==
    /\ pc[r] = "commit"
    /\ persisted' = Flush(persisted, session[r])
    /\ session' = [session EXCEPT ![r] = Expired(@)]
    /\ out' = [out EXCEPT ![r] = @ \o
                  << <<"Successfully updated forms", updated_count[r]>> >> \o
                  (IF error_count[r] > 0
                   THEN << <<"forms failed to update", error_count[r]>> >> ELSE <<>>) \o
                  << <<"Form JSON population completed">> >>]
    /\ pc' = [pc EXCEPT ![r] = NormalExit]
    /\ UNCHANGED << builder_raises, forms_to_update, idx, updated_count, error_count,
                    calls, pre >>

\* lines 76-78, 84-88: the commit raises
CommitFail(r) ==
    /\ pc[r] = "commit"
    /\ persisted' = RolledBack(persisted, session[r])
    /\ session' = [session EXCEPT ![r] = Expired(@)]
    /\ out' = [out EXCEPT ![r] = @ \o << <<"Failed to commit changes">>,
                                        <<"LOG Failed to commit form JSON updates.">> >>]
    /\ pc' = [pc EXCEPT ![r] = CommitFailedExit]
    /\ UNCHANGED << builder_raises, forms_to_update, idx, updated_count, error_count,
                    calls, pre >>

Next ==
    \E r \in Runs :
        \/ StartSeq(r)
        \/ QueryFail(r)
        \/ QueryEmpty(r)
        \/ QueryFound(r)
        \/ ProcessOk(r)
        \/ ProcessErr(r)
        \/ CommitOk(r)
        \/ CommitFail(r)

NextConc ==
    \E r \in Runs :
        \/ StartConc(r)
        \/ QueryFail(r)
        \/ QueryEmpty(r)
        \/ QueryFound(r)
        \/ ProcessOk(r)
        \/ ProcessErr(r)
        \/ CommitOk(r)
        \/ CommitFail(r)

\* One invocation only.
NextOnce ==
    \/ StartSeq(1)
    \/ QueryFail(1)
    \/ QueryEmpty(1)
    \/ QueryFound(1)
    \/ ProcessOk(1)
    \/ ProcessErr(1)
    \/ CommitOk(1)
    \/ CommitFail(1)

Spec == Init /\ [][Next]_vars
SpecTitle == InitTitle /\ [][NextOnce]_vars
SpecConc == InitConc /\ [][NextConc]_vars

(***************************************************************************)
(* Properties                                                              *)
(***************************************************************************)

\* Run r printed or logged a line of this kind.
Has(r, kind) == \E i \in DOMAIN out[r] : out[r][i][1] = kind

\* No later invocation has started.
Latest(r) == \A q \in Runs : q > r => pc[q] = "idle"

Candidates(r) == { forms_to_update[r][i] : i \in DOMAIN forms_to_update[r] }

FormsWithLine(r, kind) ==
    { out[r][i][2] : i \in { j \in DOMAIN out[r] : out[r][j][1] = kind } }
ErroredForms(r) == FormsWithLine(r, "Error processing form")
UpdatedForms(r) == FormsWithLine(r, "Generated JSON for form")

CommitSucceeded(r) == Has(r, "Successfully updated forms")
CommitFailed(r) == Has(r, "Failed to commit changes")
ScriptFailed(r) == Has(r, "Script failed with error")

\* C1: when the final commit fails, the committed table is what it was before
\* the run, the session holds no pending change, and the process exits
\* non-zero.
AtomicOnCommitFailure ==
    \A r \in Runs :
        (CommitFailed(r) /\ Latest(r)) =>
            /\ persisted = pre[r]
            /\ session[r].dirty = {}
            /\ pc[r] = "exit1"

AtomicOnCommitFailureWitness ==
    \E r \in Runs :
        /\ CommitFailed(r) /\ Latest(r)
        /\ updated_count[r] >= 1
        /\ error_count[r] >= 1

\* C2: after a committed run over N candidates of which K failed,
\* updated_count = N - K, error_count = K, and exactly the candidates that
\* did not fail have a non-NULL committed form_json.
PartialFailureIsolation ==
    \A r \in Runs :
        (CommitSucceeded(r) /\ Latest(r)) =>
            LET N == Len(forms_to_update[r])
                K == Cardinality(ErroredForms(r))
            IN  /\ updated_count[r] = N - K
                /\ error_count[r] = K
                /\ pc[r] = "exit0"
                /\ \E i \in DOMAIN out[r] : out[r][i] = <<"Successfully updated forms", N - K>>
                /\ \A f \in Candidates(r) :
                      (persisted[f].form_json # NULL) <=> (f \notin ErroredForms(r))

PartialFailureIsolationWitness ==
    \E r \in Runs :
        /\ CommitSucceeded(r) /\ Latest(r)
        /\ Len(forms_to_update[r]) = 2
        /\ Cardinality(ErroredForms(r)) = 1
        /\ \E f \in Candidates(r) : persisted[f].form_json # NULL

\* The second invocation got past its query.
SecondRunQueried ==
    \/ pc[2] \in {"loop", "commit"}
    \/ pc[2] \in Exited /\ ~ScriptFailed(2)

\* C3 as claimed: after a first run that ended normally, the second run
\* selects no candidate and leaves storage as the first run left it.
IdempotenceAsClaimed ==
    (pc[1] = "exit0" /\ SecondRunQueried) =>
        /\ forms_to_update[2] = <<>>
        /\ persisted = pre[2]

\* C3 amended: after a first run that ended normally with no per-record
\* error, the second run selects no candidate, calls no builder, reports
\* nothing to do and leaves storage as the first run left it.
IdempotenceAfterCleanRun ==
    (pc[1] = "exit0" /\ error_count[1] = 0 /\ SecondRunQueried) =>
        /\ forms_to_update[2] = <<>>
        /\ calls[2] = <<>>
        /\ pc[2] = "exit0"
        /\ Has(2, "No forms found with NULL form_json")
        /\ persisted = pre[2]

IdempotenceAfterCleanRunWitness ==
    /\ pc[1] = "exit0" /\ error_count[1] = 0
    /\ updated_count[1] = MaxForms
    /\ pc[2] = "exit0"

\* C4: after a run that ended normally, every row that was NULL before it is
\* now non-NULL or was counted as an error, and no row counted as updated is
\* still NULL.
PostRunInvariant ==
    \A r \in Runs :
        (pc[r] = "exit0" /\ Latest(r)) =>
            /\ error_count[r] = Cardinality(ErroredForms(r))
            /\ \A f \in FormIds :
                  pre[r][f].form_json = NULL =>
                      /\ persisted[f].form_json # NULL \/ f \in ErroredForms(r)
                      /\ ~(f \in UpdatedForms(r) /\ persisted[f].form_json = NULL)

PostRunInvariantWitness ==
    \E r \in Runs :
        /\ pc[r] = "exit0" /\ Latest(r)
        /\ \E f, g \in FormIds :
              /\ pre[r][f].form_json = NULL /\ persisted[f].form_json # NULL
              /\ pre[r][g].form_json = NULL /\ g \in ErroredForms(r)

\* C5: a process that has exited has status 1 exactly when its commit failed
\* or an exception reached main, and status 0 exactly when it found nothing
\* to do or its commit succeeded, whatever the number of per-record errors.
ExitStatus ==
    \A r \in Runs :
        pc[r] \in Exited =>
            /\ pc[r] = "exit1" <=> (CommitFailed(r) \/ ScriptFailed(r))
            /\ pc[r] = "exit0" <=>
                  (CommitSucceeded(r) \/ Has(r, "No forms found with NULL form_json"))

ExitStatusWitness ==
    \E r \in Runs :
        /\ pc[r] = "exit0"
        /\ error_count[r] >= 1
        /\ updated_count[r] = 0

\* C6: the title passed to the builder is the "en" title of the fund reached
\* from the form's section, None when there is no section, no joined row, no
\* title mapping or no "en" entry; only a failing query makes a record with a
\* section an error.
TitleResolution ==
    \A r \in Runs :
        /\ \A i \in DOMAIN calls[r] :
              LET section_id == pre[r][calls[r][i][1]].section_id
              IN  calls[r][i][2] =
                      IF section_id = Some("s_x") THEN Some("Grant X") ELSE NULL
        /\ \A i \in DOMAIN out[r] :
              out[r][i][1] = "Error processing form" => out[r][i][3] = "execute raised"

TitleResolutionWitness ==
    \E r \in Runs : \E i, j \in DOMAIN calls[r] :
        /\ pre[r][calls[r][i][1]].section_id = Some("s_x")
        /\ calls[r][i][2] = Some("Grant X")
        /\ pre[r][calls[r][j][1]].section_id = Some("s_orphan")
        /\ calls[r][j][2] = NULL
        /\ calls[r][j][1] \in UpdatedForms(r)

\* C7: a run that finds no NULL row exits 0 having reported nothing to do,
\* called no builder, counted nothing, attempted no commit and changed
\* nothing.
EmptyInput ==
    \A r \in Runs :
        ( /\ \A f \in FormIds : pre[r][f].form_json # NULL
          /\ pc[r] \notin {"idle", "query"}
          /\ ~ScriptFailed(r) ) =>
            /\ pc[r] = "exit0"
            /\ Has(r, "No forms found with NULL form_json")
            /\ calls[r] = <<>>
            /\ updated_count[r] = 0 /\ error_count[r] = 0
            /\ ~CommitSucceeded(r) /\ ~CommitFailed(r)
            /\ Latest(r) => persisted = pre[r]

EmptyInputWitness ==
    /\ \A f \in FormIds : pre[1][f].form_json = ExistingJson
    /\ pc[1] = "exit0"

IsOutcome(line) == line[1] \in {"Generated JSON for form", "Error processing form"}
IsCommitLine(line) == line[1] \in {"Successfully updated forms", "Failed to commit changes"}

\* The forms whose iteration has ended, in the order they ended.
ProcessedSeq(r) ==
    LET lines == SelectSeq(out[r], IsOutcome)
    IN  [i \in 1..Len(lines) |-> lines[i][2]]

\* C8: once the query has returned candidates, the forms processed so far
\* are a prefix of the candidates in the returned order, a failed form is
\* left unset in the session, a commit is attempted only after all of them
\* have been processed, and the process exits only after its one commit.
BatchNeverAborted ==
    \A r \in Runs :
        forms_to_update[r] # <<>> =>
            /\ ProcessedSeq(r) = SubSeq(forms_to_update[r], 1, Len(ProcessedSeq(r)))
            /\ pc[r] = "loop" => Len(ProcessedSeq(r)) = idx[r] - 1
            /\ pc[r] \in {"loop", "commit"} =>
                  \A f \in ErroredForms(r) :
                      session[r].objs[f].form_json = NULL /\ f \notin session[r].dirty
            /\ pc[r] = "loop" => Len(SelectSeq(out[r], IsCommitLine)) = 0
            /\ pc[r] \in {"commit"} \cup Exited => ProcessedSeq(r) = forms_to_update[r]
            /\ pc[r] \in Exited => Len(SelectSeq(out[r], IsCommitLine)) = 1

BatchNeverAbortedWitness ==
    \E r \in Runs :
        /\ pc[r] = "commit"
        /\ Len(forms_to_update[r]) = 2
        /\ forms_to_update[r][1] \in ErroredForms(r)
        /\ forms_to_update[r][2] \in UpdatedForms(r)

\* C9: every step leaves the set of rows and every column but form_json as
\* they are, and changes the form_json of a row only in the successful commit
\* of a run that selected the row, the row being NULL before.
FrameStep ==
    /\ DOMAIN persisted' = DOMAIN persisted
    /\ \A f \in DOMAIN persisted :
          persisted'[f] # persisted[f] =>
              /\ persisted[f].form_json = NULL
              /\ persisted'[f] = [persisted[f] EXCEPT !.form_json = persisted'[f].form_json]
              /\ \E r \in Runs :
                    /\ pc[r] = "commit" /\ pc'[r] = "exit0"
                    /\ f \in Candidates(r)

FrameEffect == [][FrameStep]_vars

FrameEffectWitness ==
    \E f, g \in FormIds :
        /\ pre[1][f].form_json = ExistingJson /\ persisted[f] = pre[1][f]
        /\ pre[1][g].form_json = NULL /\ persisted[g].form_json # NULL

\* C10: with two invocations, a query that succeeds selects every row that
\* is NULL in committed storage, whatever the other session has loaded or
\* written, and finds nothing to do only when there is no such row.
SelectionStep ==
    \A r \in Runs :
        (pc[r] = "query" /\ pc'[r] \in {"loop", "exit0"}) =>
            { forms_to_update'[r][i] : i \in DOMAIN forms_to_update'[r] } =
                { f \in FormIds : persisted[f].form_json = NULL }

NoMutualExclusion == [][SelectionStep]_vars

\* Both sessions hold a pending write of the same row before either commits.
NoMutualExclusionWitness ==
    \E f \in FormIds :
        /\ pc[1] \in {"loop", "commit"} /\ pc[2] \in {"loop", "commit"}
        /\ f \in session[1].dirty /\ f \in session[2].dirty
        /\ persisted[f].form_json = NULL

====
